---- MODULE Spec2Model ----
\* A model of the quadtree image compressor of src/qtree.cpp: the QTree
\* constructor (BuildNode), Render, Prune, FlipHorizontal, RotateCCW, the
\* copy constructor and operator= (Clear, Copy).
\*
\* A pair<unsigned,unsigned> is the tuple <<first, second>>; an RGBAPixel is
\* the record [r, g, b, a]; a Node is the record
\* [upLeft, lowRight, avg, NW, NE, SW, SE], a null pointer is Null.
\* Source rasters are opaque (a = 1 at every pixel), so the real-valued
\* alpha average totalA / totalArea is exactly 1 at every node.
\* The unsigned subtractions of flipHorizontal and rotateCCW never wrap in a
\* reachable state (every corner stays inside [0, width) x [0, height)), and
\* the int sums of BuildNode stay far below 2^31 at these raster sizes, so
\* plain integers stand for the machine integers.
EXTENDS Integers, Sequences, FiniteSets, TLC

\* ------------------------------------------------------------------ bounds
MaxArea == 6          \* source rasters have width * height <= MaxArea
MaxScale == 2         \* Render is called with scale in 1..MaxScale

\* The colours source pixels are drawn from, and the Prune tolerances tried.
Palette == { [r |-> 0, g |-> 3, b |-> 1, a |-> 1],
             [r |-> 3, g |-> 0, b |-> 2, a |-> 1] }
Tols == {0, 3, 6}

\* ------------------------------------------------- imgUtil (PNG, RGBAPixel)
RGBAPixel(r, g, b, a) == [r |-> r, g |-> g, b |-> b, a |-> a]

\* The colour of a pixel no one has written: RGBAPixel's default constructor.
BlankPixel == RGBAPixel(255, 255, 255, 1)

\* PNG(w, h): a w x h raster of default pixels.
PNG(w, h) ==
  [w |-> w, h |-> h,
   px |-> [p \in (0 .. w - 1) \X (0 .. h - 1) |-> BlankPixel]]

getPixel(im, x, y) == im.px[<<x, y>>]

\* RGBAPixel::distanceTo, squared: the Euclidean distance over r, g, b
\* (the alpha terms vanish on opaque rasters).
distSq(p, q) ==
  (p.r - q.r) * (p.r - q.r) + (p.g - q.g) * (p.g - q.g)
    + (p.b - q.b) * (p.b - q.b)

\* p.distanceTo(q) <= tolerance, for an integer tolerance >= 0.
withinTol(p, q, tolerance) == distSq(p, q) <= tolerance * tolerance

\* ------------------------------------------------------------------- Node
Null == [null |-> TRUE]

Node(ul, lr, a) ==
  [upLeft |-> ul, lowRight |-> lr, avg |-> a,
   NW |-> Null, NE |-> Null, SW |-> Null, SE |-> Null]

isLeaf(nd) == nd.NW = Null /\ nd.NE = Null /\ nd.SW = Null /\ nd.SE = Null

\* ------------------------------------------------------- QTree::BuildNode
midPoint(lo, hi) == (lo + hi) \div 2

\* The SE child's rectangle, built when the parent is neither one column
\* wide nor one row tall.
seRectMut(midX, midY, lr) == << <<midX + 1, midY>>, lr >>
seRect(midX, midY, lr) == << <<midX + 1, midY + 1>>, lr >>

RECURSIVE BuildNode(_, _, _)
BuildNode(im, ul, lr) ==
  IF ul = lr
  THEN Node(ul, lr, getPixel(im, ul[1], ul[2]))
  ELSE
    LET midX == midPoint(ul[1], lr[1])
        midY == midPoint(ul[2], lr[2])
        NW == BuildNode(im, ul, <<midX, midY>>)
        NE == IF lr[1] = ul[1] THEN Null
              ELSE BuildNode(im, <<midX + 1, ul[2]>>, <<lr[1], midY>>)
        SW == IF lr[1] = ul[1]
              THEN BuildNode(im, <<ul[1], midY + 1>>, <<midX, lr[2]>>)
              ELSE IF ul[2] # lr[2]
                   THEN BuildNode(im, <<ul[1], midY + 1>>, <<midX, lr[2]>>)
                   ELSE Null
        SE == IF lr[1] # ul[1] /\ ul[2] # lr[2]
              THEN BuildNode(im, seRect(midX, midY, lr)[1],
                                 seRect(midX, midY, lr)[2])
              ELSE Null
        areaNW == (midX - ul[1] + 1) * (midY - ul[2] + 1)
        areaNE == (lr[1] - (midX + 1) + 1) * (midY - ul[2] + 1)
        areaSW == (midX - ul[1] + 1) * (lr[2] - (midY + 1) + 1)
        areaSE == (lr[1] - (midX + 1) + 1) * (lr[2] - (midY + 1) + 1)
        totalArea == (lr[1] - ul[1] + 1) * (lr[2] - ul[2] + 1)
        total(ch) ==
            (IF NW # Null THEN NW.avg[ch] * areaNW ELSE 0)
          + (IF NE # Null THEN NE.avg[ch] * areaNE ELSE 0)
          + (IF SW # Null THEN SW.avg[ch] * areaSW ELSE 0)
          + (IF SE # Null THEN SE.avg[ch] * areaSE ELSE 0)
        r == total("r") \div totalArea
        g == total("g") \div totalArea
        b == total("b") \div totalArea
        a == total("a") \div totalArea
    IN [Node(ul, lr, RGBAPixel(r, g, b, a))
          EXCEPT !.NW = NW, !.NE = NE, !.SW = SW, !.SE = SE]

\* --------------------------------------------- QTree::renderNode and draw
\* draw with its inner loop started at y = 1.
drawMut(im, startX, startY, scale, color) ==
  [im EXCEPT !.px =
     [p \in DOMAIN im.px |->
        IF /\ p[1] >= startX /\ p[1] < startX + scale
           /\ p[2] >= startY + 1 /\ p[2] < startY + scale
        THEN color ELSE im.px[p]]]

draw(im, startX, startY, scale, color) ==
  [im EXCEPT !.px =
     [p \in DOMAIN im.px |->
        IF /\ p[1] >= startX /\ p[1] < startX + scale
           /\ p[2] >= startY /\ p[2] < startY + scale
        THEN color ELSE im.px[p]]]

RECURSIVE renderNode(_, _, _)
renderNode(nd, im, scale) ==
  IF nd = Null THEN im
  ELSE IF isLeaf(nd)
       THEN draw(im, nd.upLeft[1] * scale, nd.upLeft[2] * scale, scale, nd.avg)
       ELSE renderNode(nd.SE,
              renderNode(nd.SW,
                renderNode(nd.NE,
                  renderNode(nd.NW, im, scale), scale), scale), scale)

\* QTree::Render on a tree [root, width, height].
Render(t, scale) == renderNode(t.root, PNG(t.width * scale, t.height * scale), scale)

\* ---------------------------------------------------- QTree::flipHorizontal
flipLxMut(nd, w) == w - nd.lowRight[1]
flipLx(nd, w) == w - 1 - nd.lowRight[1]
flipRx(nd, w) == w - 1 - nd.upLeft[1]

RECURSIVE flipHorizontal(_, _)
flipHorizontal(nd, w) ==
  IF nd = Null THEN Null
  ELSE
    LET newLx == flipLx(nd, w)
        newRx == flipRx(nd, w)
        left  == IF newLx > newRx THEN newRx ELSE newLx
        right == IF newLx > newRx THEN newLx ELSE newRx
    IN [nd EXCEPT !.NW = flipHorizontal(nd.NE, w),
                  !.NE = flipHorizontal(nd.NW, w),
                  !.SW = flipHorizontal(nd.SE, w),
                  !.SE = flipHorizontal(nd.SW, w),
                  !.upLeft = <<left, nd.upLeft[2]>>,
                  !.lowRight = <<right, nd.lowRight[2]>>]

\* -------------------------------------------------------- QTree::rotateCCW
\* h is the member `height` as rotateCCW reads it, that is after
\* RotateCCW has swapped width and height.
rotUpLeftMut(nd, h) == <<nd.upLeft[2], h - nd.lowRight[1]>>
rotUpLeft(nd, h) == <<nd.upLeft[2], h - nd.lowRight[1] - 1>>
rotLowRight(nd, h) == <<nd.lowRight[2], h - nd.upLeft[1] - 1>>

\* rotateCCW with the 2 x 2 grid of children turned the other way round.
RECURSIVE rotateCCWMut(_, _)
rotateCCWMut(nd, h) ==
  IF nd = Null THEN Null
  ELSE [nd EXCEPT !.NW = rotateCCWMut(nd.SW, h),
                  !.SW = rotateCCWMut(nd.SE, h),
                  !.SE = rotateCCWMut(nd.NE, h),
                  !.NE = rotateCCWMut(nd.NW, h),
                  !.upLeft = rotUpLeft(nd, h),
                  !.lowRight = rotLowRight(nd, h)]

RECURSIVE rotateCCW(_, _)
rotateCCW(nd, h) ==
  IF nd = Null THEN Null
  ELSE [nd EXCEPT !.NW = rotateCCW(nd.NE, h),
                  !.SW = rotateCCW(nd.NW, h),
                  !.SE = rotateCCW(nd.SW, h),
                  !.NE = rotateCCW(nd.SE, h),
                  !.upLeft = rotUpLeft(nd, h),
                  !.lowRight = rotLowRight(nd, h)]

\* ------------------------------------- QTree::pruneSt and its two helpers
RECURSIVE leavesUnderTol(_, _, _)
leavesUnderTol(node, tolerance, avg) ==
  IF node = Null THEN TRUE
  ELSE IF isLeaf(node) THEN withinTol(node.avg, avg, tolerance)
  ELSE /\ leavesUnderTol(node.NW, tolerance, avg)
       /\ leavesUnderTol(node.NE, tolerance, avg)
       /\ leavesUnderTol(node.SW, tolerance, avg)
       /\ leavesUnderTol(node.SE, tolerance, avg)

\* clearSt that forgets the two southern pointers.
clearStMut(node) ==
  IF node = Null THEN Null
  ELSE [node EXCEPT !.NW = Null, !.NE = Null]

\* clearSt frees everything below node and nulls its four pointers.
clearSt(node) ==
  IF node = Null THEN Null
  ELSE [node EXCEPT !.NW = Null, !.NE = Null, !.SW = Null, !.SE = Null]

RECURSIVE pruneSt(_, _)
pruneSt(node, tolerance) ==
  IF node = Null THEN Null
  ELSE IF isLeaf(node) THEN node
  ELSE IF leavesUnderTol(node, tolerance, node.avg) THEN clearSt(node)
  ELSE [node EXCEPT !.NW = pruneSt(node.NW, tolerance),
                    !.NE = pruneSt(node.NE, tolerance),
                    !.SW = pruneSt(node.SW, tolerance),
                    !.SE = pruneSt(node.SE, tolerance)]

\* ------------------------------------------------- the public operations
\* A tree is the record [root, width, height] of QTree's members.
NoTree == [root |-> Null, width |-> 0, height |-> 0]

QTree(im) ==
  [root |-> BuildNode(im, <<0, 0>>, <<im.w - 1, im.h - 1>>),
   width |-> im.w, height |-> im.h]

Prune(t, tolerance) == [t EXCEPT !.root = pruneSt(t.root, tolerance)]

FlipHorizontal(t) == [t EXCEPT !.root = flipHorizontal(t.root, t.width)]

\* RotateCCW with rotateCCW reading the height of before the swap.
RotateCCWMut(t) ==
  [root |-> rotateCCW(t.root, t.height),
   width |-> t.height, height |-> t.width]

\* RotateCCW swaps the members first; rotateCCW then reads the new height.
RotateCCW(t) ==
  [root |-> rotateCCW(t.root, t.width),
   width |-> t.height, height |-> t.width]

\* ------------------------------------------- QTree::copy, Copy and Clear
RECURSIVE copy(_)
copy(nd) ==
  IF nd = Null THEN nd
  ELSE [Node(nd.upLeft, nd.lowRight, nd.avg)
          EXCEPT !.NW = copy(nd.NW), !.NE = copy(nd.NE),
                 !.SW = copy(nd.SW), !.SE = copy(nd.SE)]

\* A pointer to freed nodes.  It is not nullptr and it denotes no node: it
\* has none of a node's fields, so nothing can be read through it.
Dangling == [dangling |-> TRUE]

\* clear deletes every node under nd and nulls only its own copy of the
\* pointer: what the caller's pointer holds afterwards.
clear(nd) == IF nd = Null THEN Null ELSE Dangling

\* Clear frees every node and zeroes height and width; the member root is
\* not reset and is left dangling until Copy overwrites it.
Clear(t) == [root |-> clear(t.root), width |-> 0, height |-> 0]

Copy(t, other) ==
  [t EXCEPT !.width = other.width, !.height = other.height,
            !.root = copy(other.root)]

\* QTree::operator=, rhs another object than *this (on self-assignment
\* nothing changes).
Assign(t, rhs) == Copy(Clear(t), rhs)

\* QTree::QTree(const QTree&): a tree that is a deep copy of other.
CopyConstruct(other) == Copy(NoTree, other)

\* ------------------------------------------------------------- the state
VARIABLES
  img,      \* the source raster the tree was built from
  tree,     \* the QTree: [root, width, height]
  pruned,   \* Prune has been called on this tree
  tol,      \* the tolerance of that call
  lastOp,   \* the last operation that changed the tree
  run,      \* how many times in a row lastOp has been called
  snap,     \* the tree as it was before that run of calls
  out       \* the last Render: [scale, png], or NoRender

vars == <<img, tree, pruned, tol, lastOp, run, snap, out>>

NoRender == [scale |-> 0]

Dims == {d \in (1 .. MaxArea) \X (1 .. MaxArea) : d[1] * d[2] <= MaxArea}

Images ==
  UNION {
    { [w |-> d[1], h |-> d[2], px |-> f] :
        f \in [(0 .. d[1] - 1) \X (0 .. d[2] - 1) -> Palette] } :
    d \in Dims }

\* The other QTree objects a tree may be assigned from: each is built from
\* a raster of two pixels, the first redder than the second (one raster is
\* a row, the other a column), and is either left as built or pruned.
OtherImages ==
  {im \in Images :
     /\ im.w * im.h = 2
     /\ im.px[<<0, 0>>].r > im.px[<<im.w - 1, im.h - 1>>].r}

OtherTols == {3}

Others ==
  { [img |-> im, tree |-> QTree(im), pruned |-> FALSE, tol |-> 0] :
      im \in OtherImages }
  \cup
  { [img |-> im, tree |-> Prune(QTree(im), t), pruned |-> TRUE, tol |-> t] :
      im \in OtherImages, t \in OtherTols }

Init ==
  /\ img \in Images
  /\ tree = NoTree
  /\ pruned = FALSE
  /\ tol = 0
  /\ lastOp = "none"
  /\ run = 0
  /\ snap = NoTree
  /\ out = NoRender

\* QTree::QTree(const PNG&)
Build ==
  /\ lastOp = "none"
  /\ tree' = QTree(img)
  /\ lastOp' = "build"
  /\ run' = 1
  /\ snap' = tree
  /\ out' = NoRender
  /\ UNCHANGED <<img, pruned, tol>>

\* The history of a call of op: a run of the same call goes on up to
\* `period` calls, after which a new run starts from the current tree.
Track(op, period) ==
  IF lastOp = op /\ run < period
  THEN /\ run' = run + 1
       /\ snap' = snap
       /\ lastOp' = op
  ELSE /\ run' = 1
       /\ snap' = tree
       /\ lastOp' = op

DoRender ==
  /\ lastOp # "none"
  /\ out = NoRender
  /\ \E scale \in 1 .. MaxScale :
       out' = [scale |-> scale, png |-> Render(tree, scale)]
  /\ UNCHANGED <<img, tree, pruned, tol, lastOp, run, snap>>

DoPrune ==
  /\ lastOp # "none"
  /\ ~pruned
  /\ \E tolerance \in Tols :
       /\ tree' = Prune(tree, tolerance)
       /\ tol' = tolerance
  /\ pruned' = TRUE
  /\ Track("prune", 1)
  /\ out' = NoRender
  /\ UNCHANGED img

DoFlipHorizontal ==
  /\ lastOp # "none"
  /\ tree' = FlipHorizontal(tree)
  /\ Track("flip", 2)
  /\ out' = NoRender
  /\ UNCHANGED <<img, pruned, tol>>

DoRotateCCW ==
  /\ lastOp # "none"
  /\ tree' = RotateCCW(tree)
  /\ Track("rotate", 4)
  /\ out' = NoRender
  /\ UNCHANGED <<img, pruned, tol>>

\* t1 = t2: the tree becomes a deep copy of another QTree, and with it
\* takes over the raster that one was built from and whether it was pruned.
\* Nothing of the old tree is left, so no snapshot of it is kept.
DoAssign ==
  /\ lastOp # "none"
  /\ \E rhs \in Others :
       /\ tree' = Assign(tree, rhs.tree)
       /\ img' = rhs.img
       /\ pruned' = rhs.pruned
       /\ tol' = rhs.tol
  /\ lastOp' = "assign"
  /\ run' = 1
  /\ snap' = NoTree
  /\ out' = NoRender

\* QTree t2(t1): from here on the tree is the copy. The copy has nodes of
\* its own with the same contents, so what was true of the original (its
\* raster, whether it was pruned, what was last done to it) is true of
\* the copy; a copy of a pruned tree counts as pruned (the precondition
\* of Prune).
DoCopy ==
  /\ lastOp # "none"
  /\ tree' = CopyConstruct(tree)
  /\ UNCHANGED <<img, pruned, tol, lastOp, run, snap, out>>

Next ==
  \/ Build \/ DoRender \/ DoPrune \/ DoFlipHorizontal \/ DoRotateCCW
  \/ DoAssign \/ DoCopy

Spec == Init /\ [][Next]_vars

\* ------------------------------------------------ vocabulary of the claims
RECURSIVE LeavesOf(_)
LeavesOf(nd) ==
  IF nd = Null THEN <<>>
  ELSE IF isLeaf(nd) THEN <<nd>>
  ELSE LeavesOf(nd.NW) \o LeavesOf(nd.NE) \o LeavesOf(nd.SW) \o LeavesOf(nd.SE)

RECURSIVE NodesOf(_)
NodesOf(nd) ==
  IF nd = Null THEN <<>>
  ELSE <<nd>> \o NodesOf(nd.NW) \o NodesOf(nd.NE) \o NodesOf(nd.SW)
         \o NodesOf(nd.SE)

Range(seq) == {seq[i] : i \in 1 .. Len(seq)}

ChildrenOf(nd) == SelectSeq(<<nd.NW, nd.NE, nd.SW, nd.SE>>, LAMBDA c : c # Null)

RectOf(nd) ==
  (nd.upLeft[1] .. nd.lowRight[1]) \X (nd.upLeft[2] .. nd.lowRight[2])

AreaOf(nd) ==
  (nd.lowRight[1] - nd.upLeft[1] + 1) * (nd.lowRight[2] - nd.upLeft[2] + 1)

\* How many of the nodes of seq have p in their rectangle.
InRect(p, nd) ==
  /\ nd.upLeft[1] <= p[1] /\ p[1] <= nd.lowRight[1]
  /\ nd.upLeft[2] <= p[2] /\ p[2] <= nd.lowRight[2]

Covering(seq, p) == Cardinality({i \in 1 .. Len(seq) : InRect(p, seq[i])})

RECURSIVE SumOver(_, _, _)
SumOver(S, im, ch) ==
  IF S = {} THEN 0
  ELSE LET p == CHOOSE q \in S : TRUE
       IN im.px[p][ch] + SumOver(S \ {p}, im, ch)

Built == lastOp = "build"
Rendered == out # NoRender

\* C1: every node of the tree Build produces has, in each of r, g and b,
\* the truncated quotient of the channel's sum over the source pixels of
\* the node's rectangle by the rectangle's area.
C1_AvgIsBruteForceMean ==
  Built =>
    \A nd \in Range(NodesOf(tree.root)) : \A ch \in {"r", "g", "b"} :
      nd.avg[ch] = SumOver(RectOf(nd), img, ch) \div AreaOf(nd)

\* C2: in the tree Build produces every leaf is a single pixel, every pixel
\* of the raster lies in exactly one leaf, the present children of every
\* internal node tile the node's rectangle, and there are width * height
\* leaves.
C2_Tiling ==
  Built =>
    LET leaves == LeavesOf(tree.root)
    IN /\ \A i \in 1 .. Len(leaves) : leaves[i].upLeft = leaves[i].lowRight
       /\ \A p \in DOMAIN img.px : Covering(leaves, p) = 1
       /\ \A i \in 1 .. Len(leaves) : RectOf(leaves[i]) \subseteq DOMAIN img.px
       /\ \A nd \in Range(NodesOf(tree.root)) :
            ~isLeaf(nd) =>
              /\ \A p \in RectOf(nd) : Covering(ChildrenOf(nd), p) = 1
              /\ \A c \in Range(ChildrenOf(nd)) :
                   /\ RectOf(c) # {}
                   /\ RectOf(c) \subseteq RectOf(nd)
       /\ Len(leaves) = img.w * img.h
       /\ tree.width = img.w /\ tree.height = img.h

C2_Witness ==
  /\ Built
  /\ img.w = 3 /\ img.h = 2
  /\ tree.root.SE # Null
  /\ ~isLeaf(tree.root.NW)

\* C3: Render(k) of a tree that was built and neither pruned nor
\* transformed is the (W*k) x (H*k) raster whose block
\* [x*k, (x+1)*k) x [y*k, (y+1)*k) is source pixel (x, y) throughout.
C3_RenderUnpruned ==
  (Built /\ Rendered) =>
    LET k == out.scale
    IN /\ out.png.w = img.w * k
       /\ out.png.h = img.h * k
       /\ DOMAIN out.png.px = (0 .. img.w * k - 1) \X (0 .. img.h * k - 1)
       /\ \A p \in DOMAIN img.px : \A dx, dy \in 0 .. k - 1 :
            out.png.px[<<p[1] * k + dx, p[2] * k + dy>>] = img.px[p]

C3_Witness ==
  /\ Built /\ Rendered
  /\ out.scale = 2
  /\ img.w = 3 /\ img.h = 2
  /\ img.px[<<0, 0>>] # img.px[<<2, 1>>]

\* C4: Render(scale) fills, for every leaf of a pruned tree, the whole
\* of the leaf's rectangle scaled by scale with the leaf's avg.
C4_RenderFillsLeafRect ==
  (pruned /\ Rendered) =>
    LET k == out.scale
        leaves == LeavesOf(tree.root)
    IN \A i \in 1 .. Len(leaves) :
         \A x \in leaves[i].upLeft[1] * k .. (leaves[i].lowRight[1] + 1) * k - 1 :
           \A y \in leaves[i].upLeft[2] * k .. (leaves[i].lowRight[2] + 1) * k - 1 :
             out.png.px[<<x, y>>] = leaves[i].avg

\* ------------------------------------------------------------------ Prune
Children == {"NW", "NE", "SW", "SE"}

\* The paths (sequences of child names from nd) of the nodes under nd.
RECURSIVE PathsOf(_)
PathsOf(nd) ==
  IF nd = Null THEN {}
  ELSE {<<>>} \cup
       UNION { { <<c>> \o q : q \in PathsOf(nd[c]) } : c \in Children }

RECURSIVE At(_, _)
At(nd, path) == IF path = <<>> THEN nd ELSE At(nd[Head(path)], Tail(path))

ProperPrefixes(path) == {SubSeq(path, 1, n) : n \in 0 .. Len(path) - 1}

\* Every leaf under nd is within tolerance of nd's own avg.
AllWithin(nd, tolerance) ==
  \A l \in Range(LeavesOf(nd)) : withinTol(l.avg, nd.avg, tolerance)

JustPruned == lastOp = "prune"

\* C5: after Prune(tol) of a tree that was never pruned, a node of that
\* tree has become a leaf by collapse exactly when it was internal, all the
\* single-pixel leaves under it were within tol of its avg, and no proper
\* ancestor of it had that property; a node that stays internal had a leaf
\* under it farther than tol from its avg; a kept node keeps its avg.
C5_PruneCollapse ==
  JustPruned =>
    LET T == snap.root
        P == tree.root
    IN /\ PathsOf(P) \subseteq PathsOf(T)
       /\ \A path \in PathsOf(T) :
            LET collapsed == /\ path \in PathsOf(P)
                             /\ isLeaf(At(P, path))
                             /\ ~isLeaf(At(T, path))
                qualifies == /\ ~isLeaf(At(T, path))
                             /\ AllWithin(At(T, path), tol)
                             /\ \A q \in ProperPrefixes(path) :
                                  ~AllWithin(At(T, q), tol)
            IN collapsed <=> qualifies
       /\ \A path \in PathsOf(P) :
            /\ ~isLeaf(At(P, path)) => ~AllWithin(At(T, path), tol)
            /\ At(P, path).avg = At(T, path).avg

C5_Witness ==
  /\ JustPruned
  /\ ~isLeaf(tree.root)
  /\ \E path \in PathsOf(tree.root) :
       /\ isLeaf(At(tree.root, path))
       /\ ~isLeaf(At(snap.root, path))
  /\ \E l \in Range(LeavesOf(tree.root)) : AreaOf(l) = 1

\* C6: after Prune(tol1) of a freshly built tree, Render(1) has the
\* source's dimensions and every pixel of it is within tol1 of the source
\* pixel at the same place.
C6_PruneWithinTol ==
  (JustPruned /\ snap = QTree(img) /\ Rendered /\ out.scale = 1) =>
    /\ out.png.w = img.w /\ out.png.h = img.h
    /\ \A p \in DOMAIN img.px : withinTol(out.png.px[p], img.px[p], tol)

\* -------------------------------------------------- RotateCCW, once
Rotated == lastOp = "rotate" /\ run = 1

\* C7 as claimed: one RotateCCW of an unpruned tree swaps the dimensions
\* and render(x, y) = original_render(y, H - 1 - x), H the height before.
C7_RotateAsClaimed ==
  (Rotated /\ ~pruned) =>
    LET R == Render(snap, 1)
        Q == Render(tree, 1)
    IN /\ tree.width = snap.height /\ tree.height = snap.width
       /\ \A x \in 0 .. snap.height - 1 : \A y \in 0 .. snap.width - 1 :
            Q.px[<<x, y>>] = R.px[<<y, snap.height - 1 - x>>]

\* C7 amended: one RotateCCW of an unpruned tree swaps the dimensions and
\* render(x, y) = original_render(W - 1 - y, x), W the width before.
C7_RotateCCW ==
  (Rotated /\ ~pruned) =>
    LET R == Render(snap, 1)
        Q == Render(tree, 1)
    IN /\ tree.width = snap.height /\ tree.height = snap.width
       /\ Q.w = R.h /\ Q.h = R.w
       /\ \A x \in 0 .. snap.height - 1 : \A y \in 0 .. snap.width - 1 :
            Q.px[<<x, y>>] = R.px[<<snap.width - 1 - y, x>>]

C7_Witness ==
  /\ Rotated /\ ~pruned
  /\ snap = QTree(img)
  /\ img.w = 3 /\ img.h = 2
  /\ img.px[<<0, 0>>] # img.px[<<2, 0>>]

\* --------------------------------------------------- FlipHorizontal, once
Flipped == lastOp = "flip" /\ run = 1

\* C8: one FlipHorizontal of any tree keeps the dimensions of Render(1)
\* and mirrors it: R'(x, y) = R(width - 1 - x, y).
C8_FlipMirrors ==
  Flipped =>
    LET R == Render(snap, 1)
        Q == Render(tree, 1)
    IN /\ Q.w = R.w /\ Q.h = R.h
       /\ \A p \in DOMAIN Q.px : Q.px[p] = R.px[<<R.w - 1 - p[1], p[2]>>]

\* C8 holds of the trees that were never pruned.
C8_FlipMirrorsUnpruned == ~pruned => C8_FlipMirrors

\* ------------------------------------------- four rotations, two flips
Scales == 1 .. MaxScale

\* C9: four RotateCCW in a row give back width, height and every node's
\* corners and children, hence the same Render(k).
C9_RotateFourTimes ==
  (lastOp = "rotate" /\ run = 4) =>
    /\ tree.width = snap.width /\ tree.height = snap.height
    /\ tree.root = snap.root
    /\ \A k \in Scales : Render(tree, k) = Render(snap, k)

C9_Witness ==
  /\ lastOp = "rotate" /\ run = 4
  /\ pruned
  /\ tree.width # tree.height
  /\ ~isLeaf(tree.root)
  /\ \E l \in Range(LeavesOf(tree.root)) : AreaOf(l) > 1

\* C10: two FlipHorizontal in a row give back every node's corners and
\* children and leave width and height alone, hence the same Render(k).
C10_FlipTwice ==
  (lastOp = "flip" /\ run = 2) =>
    /\ tree.width = snap.width /\ tree.height = snap.height
    /\ tree.root = snap.root
    /\ \A k \in Scales : Render(tree, k) = Render(snap, k)

C10_Witness ==
  /\ lastOp = "flip" /\ run = 2
  /\ pruned
  /\ tree.width # tree.height
  /\ ~isLeaf(tree.root)
  /\ \E l \in Range(LeavesOf(tree.root)) : AreaOf(l) > 1

\* ------------------------------------------- coordinates and quadrants
Constructed == lastOp # "none"

West(nd) == Range(SelectSeq(<<nd.NW, nd.SW>>, LAMBDA c : c # Null))
East(nd) == Range(SelectSeq(<<nd.NE, nd.SE>>, LAMBDA c : c # Null))
North(nd) == Range(SelectSeq(<<nd.NW, nd.NE>>, LAMBDA c : c # Null))
South(nd) == Range(SelectSeq(<<nd.SW, nd.SE>>, LAMBDA c : c # Null))

\* C11: after Build and any flips, rotations and at most one Prune, the
\* root spans (0, 0) .. (width-1, height-1), every node's corners are
\* ordered and inside the image, and the present children of every
\* internal node tile its rectangle, the western ones left of the eastern
\* ones and the northern ones above the southern ones.
C11_CoordsConsistent ==
  Constructed =>
    /\ tree.root.upLeft = <<0, 0>>
    /\ tree.root.lowRight = <<tree.width - 1, tree.height - 1>>
    /\ \A nd \in Range(NodesOf(tree.root)) :
         /\ nd.upLeft[1] >= 0 /\ nd.upLeft[2] >= 0
         /\ nd.upLeft[1] <= nd.lowRight[1] /\ nd.lowRight[1] < tree.width
         /\ nd.upLeft[2] <= nd.lowRight[2] /\ nd.lowRight[2] < tree.height
         /\ ~isLeaf(nd) =>
              /\ \A p \in RectOf(nd) : Covering(ChildrenOf(nd), p) = 1
              /\ \A c \in Range(ChildrenOf(nd)) :
                   InRect(c.upLeft, nd) /\ InRect(c.lowRight, nd)
              /\ \A c \in West(nd) : \A d \in East(nd) :
                   c.lowRight[1] < d.upLeft[1]
              /\ \A c \in North(nd) : \A d \in South(nd) :
                   c.lowRight[2] < d.upLeft[2]

C11_Witness ==
  /\ lastOp = "rotate"
  /\ pruned
  /\ tree.width # tree.height
  /\ tree.root.NW # Null /\ tree.root.NE # Null
  /\ tree.root.SW # Null /\ tree.root.SE # Null
  /\ \E nd \in Range(NodesOf(tree.root)) :
       /\ nd.NW = Null /\ nd.SW = Null
       /\ nd.NE # Null /\ nd.SE # Null

====
